---- MODULE Spec2Model ----
(***************************************************************************)
(* Model of the TAWI broadcaster (src/src/routes/broadcaster.jsx) and      *)
(* receiver (src/src/routes/receiver.jsx) coordination logic.              *)
(*                                                                         *)
(* Every event-loop task of the page is one action: the handler's state    *)
(* updates, the re-render they cause and the processing effect that the    *)
(* re-render runs when one of its dependencies changed.                    *)
(* The capture device (MediaRecorder) and the two inference workers are    *)
(* not part of src/; they are modelled from spec.md sections 5 to 7.       *)
(* The transcription worker's 'update' message only sets the tokens-per-   *)
(* second display (broadcaster.jsx:104-110), so the worker model leaves it *)
(* and its handler out.                                                    *)
(*                                                                         *)
(* Spec is the broadcaster of src/src/routes/broadcaster.jsx, FairSpec the *)
(* same with every queued task eventually run, VariantSpec the broadcaster *)
(* variant of src/unnamed/part_000, which posts 'load' at mount,           *)
(* LifecycleSpec the broadcaster with its unmount, ReceiverSpec the        *)
(* receiver, ProgressSpec the model-loading progress lists of both pages   *)
(* and PairSpec a broadcaster and a receiver running side by side.         *)
(***************************************************************************)
EXTENDS Integers, Sequences, FiniteSets, TLC

(***************************************************************************)
(* Bounds of the model                                                     *)
(***************************************************************************)
\* scaled-down stand-ins for 16_000 Hz and 30 s (broadcaster.jsx:12-13)
WHISPER_SAMPLING_RATE == 2
MAX_AUDIO_LENGTH == 2
\* non-empty chunks the capture device delivers in one run
MaxChunks == 3
\* samples one chunk decodes to, at most
MaxChunkSize == 2
\* transcription windows the processing effect builds in one run
MaxRequests == 3
\* Reset clicks and language changes of the broadcaster's user, together
MaxUserActions == 1
\* transcripts a receiver gets and target-language changes of its user
MaxTranscripts == 2
MaxTargetChanges == 2
\* model-loading messages the two pages handle in one run
MaxLoadEvents == 4

MAX_SAMPLES == WHISPER_SAMPLING_RATE * MAX_AUDIO_LENGTH

\* languages of the broadcaster's selector, and what the receiver maps them to
BLanguages == {"en", "de"}
RLanguages == {"eng_Latn", "deu_Latn", "fra_Latn"}
languageMapping == [l \in BLanguages |-> IF l = "en" THEN "eng_Latn" ELSE "deu_Latn"]
\* transcript texts a receiver can be sent
Messages == {"m1", "m2"}

VARIABLES
    \* ---- broadcaster: React state and refs
    status,         \* "null" | "loading" | "ready"
    recorderRef,    \* TRUE when recorderRef.current is a MediaRecorder
    recording, isProcessing, chunks, language, languageRef, text,
    \* ---- broadcaster: environment
    gum,            \* getUserMedia promise: "pending" | "granted" | "denied"
    recState,       \* MediaRecorder.state: "inactive" | "recording"
    recEvents,      \* recorder events queued for the page, oldest first
    timers,         \* pending 25 ms retry timers
    reads,          \* FileReader/decode jobs started by the processing effect
    wq,             \* requests posted to the transcription worker, oldest first
    wstage,         \* the worker's position on the head request
    inbox,          \* worker messages not yet handled by the page
    lastBroadcast,  \* payload of the last broadcast on the channel
    \* ---- broadcaster: bookkeeping
    nextChunk, nRequests, nResets, nLangChanges,
    genOutstanding, \* 'generate' posts not yet answered by 'complete' or a failure
    segChunks,      \* non-empty chunks delivered since the last onstart, in order
    startClicked,   \* the user has clicked the start button
    recSeg,         \* recording segments the capture device has started
    resetSeg,       \* the segment started by the last Reset click, 0 if none
    effect,         \* what the processing effect did in the last step: "none"
                    \* (not run), "skip" (returned early), "window", "request"
    nPublished,     \* broadcasts made on the channel
    nCompleteHandled, \* 'complete' messages handled by the page
    webgpu,         \* IS_WEBGPU_AVAILABLE, fixed when the page is loaded
    nLoadPosted,    \* 'load' requests posted to the transcription worker
    nReady,         \* 'ready' messages handled by the page
    startWhileRecording, \* start() was called on a recorder already recording
    unmounted,      \* the component's cleanup functions have run
    timerError,     \* a retry callback ran with recorderRef.current null
    flightChunks,   \* ids of the chunks of this segment delivered during a request
    decodeDropped,  \* a window was dropped by a decode failure, none posted since
    gateAtWindow,   \* the translation gate as the last window was built
    lastWindow,     \* chunks of the last window built from the current buffer,
                    \* <<>> while the buffer is empty
    \* ---- receiver: React state and refs
    mounted, disabled, input, inputRef, sourceLanguage, sourceLanguageRef,
    targetLanguage, targetLanguageRef, output,
    \* ---- receiver: environment
    tq,             \* requests posted to the translation worker
    tstage,         \* the translation worker's position on the head request
    rInbox,         \* translation-worker messages not yet handled
    \* ---- receiver: bookkeeping
    nTranscripts, nTargetChanges,
    payload,              \* payload of the last 'transcript' broadcast received
    tPosted, tCompleted,  \* translate requests posted / 'complete' messages handled
    retargetPending,      \* a target change no posted request or short-circuit served
    gateAtPost,           \* the transcription gate as the last translate request was posted
    \* ---- model loading progress of the two pages
    progressItems,  \* broadcaster: the list of items under download
    rProgressItems, \* receiver: the list of items under download
    ready,          \* receiver: "null" | "false" | "true"
    \* ---- model loading: bookkeeping
    openFiles,      \* broadcaster: files initiated and not yet done
    rOpenFiles,     \* receiver: files initiated and not yet done
    nLoadEvents     \* model-loading messages handled so far

bvars == <<status, recorderRef, recording, isProcessing, chunks, language,
           languageRef, text, gum, recState, recEvents, timers, reads, wq,
           wstage, inbox, lastBroadcast, nextChunk, nRequests, nResets,
           nLangChanges, genOutstanding, segChunks, startClicked, recSeg,
           resetSeg, effect, nPublished, nCompleteHandled, webgpu, unmounted,
           timerError, flightChunks, decodeDropped, gateAtWindow,
           nLoadPosted, nReady, startWhileRecording, lastWindow>>
rvars == <<mounted, disabled, input, inputRef, sourceLanguage, sourceLanguageRef,
           targetLanguage, targetLanguageRef, output, tq, tstage, rInbox,
           nTranscripts, nTargetChanges, payload, tPosted, tCompleted,
           retargetPending, gateAtPost>>
pvars == <<progressItems, rProgressItems, ready, openFiles, rOpenFiles,
           nLoadEvents>>
vars == <<bvars, rvars, pvars>>

(***************************************************************************)
(* Values                                                                  *)
(***************************************************************************)
NoChunk == [id |-> 0, size |-> 0, seg |-> 0, lang |-> "-"]
NoOutput == [audio |-> <<>>, language |-> "-"]
NoBroadcast == [message |-> NoOutput, language |-> "-"]
NoPayload == [message |-> "-", language |-> "-"]

\* decodeAudioData + getChannelData(0): the samples of the chunks, in blob order
RECURSIVE Decode(_)
Decode(cs) ==
    IF cs = <<>> THEN <<>>
    ELSE [i \in 1..Head(cs).size |-> <<Head(cs).id, i>>] \o Decode(Tail(cs))

Max(a, b) == IF a > b THEN a ELSE b
Min(a, b) == IF a < b THEN a ELSE b

\* TypedArray.prototype.slice(start) with JavaScript's negative-index rule
Slice(s, start) ==
    LET k == IF start < 0 THEN Max(Len(s) + start, 0) ELSE Min(start, Len(s))
    IN  SubSeq(s, k + 1, Len(s))

\* a window that keeps the oldest samples instead of the newest
AudioWindowFirst(audio) ==
    IF Len(audio) > MAX_SAMPLES THEN SubSeq(audio, 1, MAX_SAMPLES) ELSE audio

\* a window that trims one sample too late
AudioWindowOffByOne(audio) ==
    IF Len(audio) > MAX_SAMPLES + 1 THEN Slice(audio, 0 - MAX_SAMPLES) ELSE audio

\* broadcaster.jsx:195-199
AudioWindow(audio) ==
    IF Len(audio) > MAX_SAMPLES THEN Slice(audio, 0 - MAX_SAMPLES) ELSE audio

\* a buffer update that puts the new chunk first
AppendChunkFront(prev, data) == <<data>> \o prev

\* broadcaster.jsx:154  setChunks((prev) => [...prev, e.data])
AppendChunk(prev, data) == Append(prev, data)

(***************************************************************************)
(* Capture device (MediaRecorder), spec.md section 6                       *)
(***************************************************************************)
StartEv == [type |-> "start", chunk |-> NoChunk]
StopEv == [type |-> "stop", chunk |-> NoChunk]
DataEv(c) == [type |-> "data", chunk |-> c]

\* what a dataavailable event can carry: nothing yet (size 0) or a fresh chunk
DataChoices(nxt, st) ==
    IF st = "recording" /\ nxt <= MaxChunks THEN 0..MaxChunkSize ELSE {0}
\* the segment being recorded and the language selected while it is recorded
CaptureTag == [seg |-> recSeg, lang |-> language]
NewChunk(nxt, d, tag) ==
    IF d = 0 THEN NoChunk
    ELSE [id |-> nxt, size |-> d, seg |-> tag.seg, lang |-> tag.lang]
NextId(nxt, d) == IF d = 0 THEN nxt ELSE nxt + 1

\* requestData(): queues one dataavailable event; InvalidStateError when inactive
RequestData(evs, st, nxt, d, tag) ==
    IF st = "recording" THEN Append(evs, DataEv(NewChunk(nxt, d, tag))) ELSE evs

\* stop(): nothing when inactive, else dataavailable followed by stop
StopEvents(evs, st, nxt, d, tag) ==
    IF st = "recording"
    THEN evs \o <<DataEv(NewChunk(nxt, d, tag)), StopEv>>
    ELSE evs

\* a start() that the device ignores
StartEventsNone(evs, st) == evs

\* start(): queues the start event; InvalidStateError when already recording
StartEvents(evs, st) == IF st = "inactive" THEN Append(evs, StartEv) ELSE evs

\* the segment count after a start() call made in device state st
StartedSeg(seg, st) == IF st = "inactive" THEN seg + 1 ELSE seg

(***************************************************************************)
(* Processing effect, broadcaster.jsx:178-210                              *)
(***************************************************************************)
\* a guard that forgets the in-flight check
EffectGuardNoGate(ref, recng, proc, st) == ref /\ recng /\ st = "ready"

\* broadcaster.jsx:179-182
EffectGuard(ref, recng, proc, st) == ref /\ recng /\ ~proc /\ st = "ready"

\* a data test that lets an empty buffer through
HasDataAlways(ch) == TRUE

\* broadcaster.jsx:184
HasData(ch) == Len(ch) > 0

\* a window built from the newest chunk alone
WindowChunksLast(ch) == <<ch[Len(ch)]>>

\* broadcaster.jsx:186  new Blob(chunks): the whole buffer, in order
WindowChunks(ch) == ch

\* The effect as run by the re-render that follows a handler: `run` says whether
\* one of [status, recording, isProcessing, chunks, language] changed; evs and
\* nxt are the recorder's event queue and chunk counter as the handler left them.
ProcessingEffect(run, evs, nxt) ==
    IF run /\ EffectGuard(recorderRef', recording', isProcessing', status')
    THEN IF HasData(chunks')
         THEN /\ nRequests < MaxRequests
              /\ reads' = Append(reads, [chunks |-> WindowChunks(chunks'),
                                         language |-> language'])
              /\ nRequests' = nRequests + 1
              /\ recEvents' = evs
              /\ nextChunk' = nxt
              /\ effect' = "window"
              /\ gateAtWindow' = disabled
              /\ lastWindow' = WindowChunks(chunks')
         ELSE /\ \E d \in DataChoices(nxt, recState') :
                   /\ recEvents' = RequestData(evs, recState', nxt, d, CaptureTag')
                   /\ nextChunk' = NextId(nxt, d)
              /\ UNCHANGED <<reads, nRequests>>
              /\ effect' = "request"
              /\ UNCHANGED gateAtWindow
              /\ lastWindow' = <<>>
    ELSE /\ recEvents' = evs
         /\ nextChunk' = nxt
         /\ UNCHANGED <<reads, nRequests>>
         /\ effect' = IF run THEN "skip" ELSE "none"
         /\ UNCHANGED gateAtWindow
         /\ lastWindow' = IF HasData(chunks') THEN lastWindow ELSE <<>>

(***************************************************************************)
(* Initial state: both pages constructed, nothing mounted or clicked       *)
(***************************************************************************)
PlainText(t) == [kind |-> "text", text |-> t, src |-> "-", tgt |-> "-"]
\* what the translation worker returns for a request: not the input text
Translation(t, s, g) == [kind |-> "translation", text |-> t, src |-> s, tgt |-> g]
PartialTranslation(t, s, g) == [kind |-> "partial", text |-> t, src |-> s, tgt |-> g]

LoadRequest == [type |-> "load", audio |-> <<>>, language |-> "-",
                chunks |-> <<>>, decoded |-> <<>>]

\* the state after mount, given what the worker-setup effect posted
InitWith(posted) ==
    /\ status = "null" /\ recorderRef = FALSE
    /\ recording = FALSE /\ isProcessing = FALSE /\ chunks = <<>>
    /\ language = "en" /\ languageRef = "en"
    /\ text = NoOutput
    /\ gum = "pending" /\ recState = "inactive" /\ recEvents = <<>>
    /\ timers = 0 /\ reads = <<>> /\ wq = posted /\ wstage = "idle"
    /\ inbox = <<>> /\ lastBroadcast = NoBroadcast
    /\ nextChunk = 1 /\ nRequests = 0 /\ nResets = 0 /\ nLangChanges = 0
    /\ genOutstanding = 0 /\ segChunks = <<>>
    /\ startClicked = FALSE /\ recSeg = 0 /\ resetSeg = 0 /\ effect = "none"
    /\ nPublished = 0 /\ nCompleteHandled = 0
    /\ webgpu \in BOOLEAN /\ unmounted = FALSE /\ timerError = FALSE
    /\ nLoadPosted = Len(posted) /\ nReady = 0 /\ startWhileRecording = FALSE
    /\ lastWindow = <<>>
    /\ flightChunks = {} /\ decodeDropped = FALSE /\ gateAtWindow = FALSE
    /\ mounted = FALSE /\ disabled = FALSE
    /\ input = "Hallo." /\ inputRef = "Hallo."
    /\ sourceLanguage = "deu_Latn" /\ sourceLanguageRef = "deu_Latn"
    /\ targetLanguage = "eng_Latn" /\ targetLanguageRef = "eng_Latn"
    /\ output = PlainText("")
    /\ tq = <<>> /\ tstage = "idle" /\ rInbox = <<>>
    /\ nTranscripts = 0 /\ nTargetChanges = 0 /\ payload = NoPayload
    /\ tPosted = 0 /\ tCompleted = 0 /\ retargetPending = FALSE
    /\ gateAtPost = FALSE
    /\ progressItems = <<>> /\ rProgressItems = <<>> /\ ready = "null"
    /\ openFiles = {} /\ rOpenFiles = {} /\ nLoadEvents = 0

\* broadcaster.jsx:45-54  the worker is created at mount, nothing is posted
Init == InitWith(<<>>)

\* src/unnamed/part_000:266-278  the broadcaster variant posts 'load' at mount
VariantInit == InitWith(<<LoadRequest>>)

(***************************************************************************)
(* Broadcaster: user actions and getUserMedia                              *)
(***************************************************************************)
\* broadcaster.jsx:212, 356-362  the controls are rendered only while the
\* component is mounted and WebGPU is available
Rendered == webgpu /\ ~unmounted

\* broadcaster.jsx:270-276  START TRANSCRIBING (rendered while status is null)
StartClick ==
    /\ Rendered
    /\ status = "null"
    /\ wq' = Append(wq, LoadRequest)
    /\ status' = "loading"
    /\ UNCHANGED <<recorderRef, recording, isProcessing, chunks, language,
                   languageRef, text, gum, recState, timers, wstage, inbox,
                   lastBroadcast, nResets, nLangChanges, genOutstanding, segChunks>>
    /\ startClicked' = TRUE
    /\ nLoadPosted' = nLoadPosted + 1
    /\ UNCHANGED <<recSeg, resetSeg, nPublished, nCompleteHandled, webgpu,
                   nReady, startWhileRecording,
                   unmounted, timerError, flightChunks, decodeDropped>>
    /\ ProcessingEffect(TRUE, recEvents, nextChunk)
    /\ UNCHANGED <<rvars, pvars>>

\* broadcaster.jsx:140-166  getUserMedia resolves: the recorder is created
GetUserMediaGranted ==
    /\ gum = "pending"
    /\ gum' = "granted"
    /\ recorderRef' = TRUE
    /\ UNCHANGED <<status, recording, isProcessing, chunks, language, languageRef,
                   text, recState, recEvents, timers, reads, wq, wstage, inbox,
                   lastBroadcast, nextChunk, nRequests, nResets, nLangChanges,
                   genOutstanding, segChunks>>
    /\ UNCHANGED <<startClicked, recSeg, resetSeg, nPublished, nCompleteHandled,
                   webgpu, nLoadPosted, nReady,
                   startWhileRecording, unmounted, timerError, flightChunks, decodeDropped>>
    /\ effect' = "none"
    /\ UNCHANGED <<gateAtWindow, lastWindow>>
    /\ UNCHANGED <<rvars, pvars>>

\* broadcaster.jsx:167  getUserMedia rejects: the error is logged, nothing else
GetUserMediaDenied ==
    /\ gum = "pending"
    /\ gum' = "denied"
    /\ UNCHANGED <<status, recorderRef, recording, isProcessing, chunks, language,
                   languageRef, text, recState, recEvents, timers, reads, wq,
                   wstage, inbox, lastBroadcast, nextChunk, nRequests, nResets,
                   nLangChanges, genOutstanding, segChunks>>
    /\ UNCHANGED <<startClicked, recSeg, resetSeg, nPublished, nCompleteHandled,
                   webgpu, nLoadPosted, nReady,
                   startWhileRecording, unmounted, timerError, flightChunks, decodeDropped>>
    /\ effect' = "none"
    /\ UNCHANGED <<gateAtWindow, lastWindow>>
    /\ UNCHANGED <<rvars, pvars>>

\* broadcaster.jsx:326-334  Reset (rendered while status is ready)
Reset ==
    /\ Rendered
    /\ status = "ready"
    /\ nResets + nLangChanges < MaxUserActions
    /\ nResets' = nResets + 1
    /\ \E d \in DataChoices(nextChunk, recState) :
          IF recorderRef
          THEN /\ recEvents' = StartEvents(
                       StopEvents(recEvents, recState, nextChunk, d, CaptureTag),
                       "inactive")
               /\ nextChunk' = NextId(nextChunk, d)
               /\ recState' = "recording"
               /\ recSeg' = StartedSeg(recSeg, "inactive")
               /\ resetSeg' = recSeg'
          ELSE /\ d = 0
               /\ UNCHANGED <<recEvents, nextChunk, recState, recSeg, resetSeg>>
    /\ UNCHANGED <<status, recorderRef, recording, isProcessing, chunks, language,
                   languageRef, text, gum, timers, reads, wq, wstage, inbox,
                   lastBroadcast, nRequests, nLangChanges, genOutstanding, segChunks>>
    /\ UNCHANGED <<startClicked, nPublished, nCompleteHandled, webgpu,
                   nLoadPosted, nReady, startWhileRecording,
                   unmounted, timerError, flightChunks, decodeDropped>>
    /\ effect' = "none"
    /\ UNCHANGED <<gateAtWindow, lastWindow>>
    /\ UNCHANGED <<rvars, pvars>>

\* broadcaster.jsx:317-325  LanguageSelector setLanguage
SetLanguage ==
    /\ Rendered
    /\ status = "ready"
    /\ nResets + nLangChanges < MaxUserActions
    /\ nLangChanges' = nLangChanges + 1
    /\ \E e \in BLanguages \ {language}, d \in DataChoices(nextChunk, recState) :
          /\ language' = e
          /\ languageRef' = e
          /\ recState' = IF recorderRef THEN "recording" ELSE recState
          /\ recSeg' = IF recorderRef THEN StartedSeg(recSeg, "inactive") ELSE recSeg
          /\ UNCHANGED <<status, recorderRef, recording, isProcessing, chunks, text,
                         gum, timers, wq, wstage, inbox, lastBroadcast, nResets,
                         genOutstanding, segChunks>>
          /\ UNCHANGED <<startClicked, resetSeg, nPublished, nCompleteHandled,
                         webgpu, nLoadPosted, nReady,
                   startWhileRecording, unmounted, timerError, flightChunks,
                         decodeDropped>>
          /\ IF recorderRef
             THEN ProcessingEffect(TRUE,
                      StartEvents(
                          StopEvents(recEvents, recState, nextChunk, d, CaptureTag),
                          "inactive"),
                      NextId(nextChunk, d))
             ELSE d = 0 /\ ProcessingEffect(TRUE, recEvents, nextChunk)
    /\ UNCHANGED <<rvars, pvars>>

(***************************************************************************)
(* Broadcaster: recorder callbacks and the retry timer                     *)
(***************************************************************************)
\* an onstart that keeps the buffer
OnStartChunksKept == chunks

\* broadcaster.jsx:150  setChunks([])
OnStartChunks == <<>>

\* broadcaster.jsx:148-151  onstart
RecorderOnStart ==
    /\ ~unmounted
    /\ recEvents # <<>> /\ Head(recEvents).type = "start"
    /\ recording' = TRUE
    /\ chunks' = OnStartChunks
    /\ segChunks' = <<>>
    /\ flightChunks' = {}
    /\ UNCHANGED <<status, recorderRef, isProcessing, language, languageRef, text,
                   gum, recState, timers, wq, wstage, inbox, lastBroadcast,
                   nResets, nLangChanges, genOutstanding>>
    /\ UNCHANGED <<startClicked, recSeg, resetSeg, nPublished, nCompleteHandled,
                   webgpu, nLoadPosted, nReady,
                   startWhileRecording, unmounted, timerError, decodeDropped>>
    /\ ProcessingEffect(TRUE, Tail(recEvents), nextChunk)
    /\ UNCHANGED <<rvars, pvars>>

\* a retry that arms two timers for one empty chunk
EmptyChunkRetryTwice(t) == t + 2

\* broadcaster.jsx:157-159  one setTimeout(..., 25) per empty chunk
EmptyChunkRetry(t) == t + 1

\* broadcaster.jsx:152-161  ondataavailable
RecorderOnDataAvailable ==
    /\ ~unmounted
    /\ recEvents # <<>> /\ Head(recEvents).type = "data"
    /\ LET data == Head(recEvents).chunk IN
       IF data.size > 0
       THEN /\ chunks' = AppendChunk(chunks, data)
            /\ segChunks' = Append(segChunks, data)
            /\ flightChunks' = IF genOutstanding > 0
                               THEN flightChunks \cup {data.id} ELSE flightChunks
            /\ timers' = timers
            /\ UNCHANGED <<startClicked, recSeg, resetSeg, nPublished,
                           nCompleteHandled, webgpu, nLoadPosted, nReady,
                   startWhileRecording, unmounted, timerError,
                           decodeDropped>>
            /\ UNCHANGED <<status, recorderRef, recording, isProcessing, language,
                           languageRef, text, gum, recState, wq, wstage, inbox,
                           lastBroadcast, nResets, nLangChanges, genOutstanding>>
            /\ ProcessingEffect(TRUE, Tail(recEvents), nextChunk)
       ELSE /\ timers' = EmptyChunkRetry(timers)
            /\ recEvents' = Tail(recEvents)
            /\ UNCHANGED <<status, recorderRef, recording, isProcessing, chunks,
                           language, languageRef, text, gum, recState, reads,
                           wq, wstage, inbox, lastBroadcast, nextChunk, nRequests,
                           nResets, nLangChanges, genOutstanding, segChunks>>
            /\ UNCHANGED <<startClicked, recSeg, resetSeg, nPublished,
                           nCompleteHandled, webgpu, nLoadPosted, nReady,
                   startWhileRecording, unmounted, timerError,
                           flightChunks, decodeDropped>>
            /\ effect' = "none"
            /\ UNCHANGED <<gateAtWindow, lastWindow>>
    /\ UNCHANGED <<rvars, pvars>>

\* an onstop callback that leaves the flag as it is
OnStopRecordingKept == recording

\* broadcaster.jsx:164  setRecording(false)
OnStopRecording == FALSE

\* broadcaster.jsx:163-165  onstop
RecorderOnStop ==
    /\ ~unmounted
    /\ recEvents # <<>> /\ Head(recEvents).type = "stop"
    /\ recording' = OnStopRecording
    /\ UNCHANGED <<status, recorderRef, isProcessing, chunks, language, languageRef,
                   text, gum, recState, timers, wq, wstage, inbox,
                   lastBroadcast, nResets, nLangChanges, genOutstanding, segChunks>>
    /\ UNCHANGED <<startClicked, recSeg, resetSeg, nPublished, nCompleteHandled,
                   webgpu, nLoadPosted, nReady,
                   startWhileRecording, unmounted, timerError, flightChunks, decodeDropped>>
    /\ ProcessingEffect(recording, Tail(recEvents), nextChunk)
    /\ UNCHANGED <<rvars, pvars>>

\* broadcaster.jsx:157-159  the timer callback: recorderRef.current.requestData()
TimerFire ==
    /\ timers > 0
    /\ timers' = timers - 1
    /\ IF recorderRef
       THEN /\ \E d \in DataChoices(nextChunk, recState) :
                 /\ recEvents' =
                        RequestData(recEvents, recState, nextChunk, d, CaptureTag)
                 /\ nextChunk' = NextId(nextChunk, d)
            /\ UNCHANGED timerError
       ELSE /\ timerError' = TRUE
            /\ UNCHANGED <<recEvents, nextChunk>>
    /\ UNCHANGED <<status, recorderRef, recording, isProcessing, chunks, language,
                   languageRef, text, gum, recState, reads, wq, wstage, inbox,
                   lastBroadcast, nRequests, nResets, nLangChanges, genOutstanding,
                   segChunks>>
    /\ UNCHANGED <<startClicked, recSeg, resetSeg, nPublished, nCompleteHandled,
                   webgpu, nLoadPosted, nReady,
                   startWhileRecording, unmounted, flightChunks, decodeDropped>>
    /\ effect' = "none"
    /\ UNCHANGED <<gateAtWindow, lastWindow>>
    /\ UNCHANGED <<rvars, pvars>>

(***************************************************************************)
(* Broadcaster: the window is read, decoded and posted                     *)
(***************************************************************************)
GenerateRequest(job) ==
    [type |-> "generate", audio |-> AudioWindow(Decode(job.chunks)),
     language |-> job.language, chunks |-> job.chunks,
     decoded |-> Decode(job.chunks)]

\* broadcaster.jsx:190-205  fileReader.onloadend, decoding succeeds
ReadDone ==
    /\ reads # <<>>
    /\ reads' = Tail(reads)
    /\ wq' = Append(wq, GenerateRequest(Head(reads)))
    /\ genOutstanding' = genOutstanding + 1
    /\ UNCHANGED <<status, recorderRef, recording, isProcessing, chunks, language,
                   languageRef, text, gum, recState, recEvents, timers, wstage,
                   inbox, lastBroadcast, nextChunk, nRequests, nResets,
                   nLangChanges, segChunks>>
    /\ UNCHANGED <<startClicked, recSeg, resetSeg, nPublished, nCompleteHandled,
                   webgpu, nLoadPosted, nReady,
                   startWhileRecording, unmounted, timerError, flightChunks>>
    /\ effect' = "none"
    /\ UNCHANGED <<gateAtWindow, lastWindow>>
    /\ decodeDropped' = FALSE
    /\ UNCHANGED <<rvars, pvars>>

\* broadcaster.jsx:192-194  decodeAudioData rejects: onloadend throws, no post
DecodeFail ==
    /\ reads # <<>>
    /\ reads' = Tail(reads)
    /\ UNCHANGED <<status, recorderRef, recording, isProcessing, chunks, language,
                   languageRef, text, gum, recState, recEvents, timers, wq,
                   wstage, inbox, lastBroadcast, nextChunk, nRequests, nResets,
                   nLangChanges, genOutstanding, segChunks>>
    /\ UNCHANGED <<startClicked, recSeg, resetSeg, nPublished, nCompleteHandled,
                   webgpu, nLoadPosted, nReady,
                   startWhileRecording, unmounted, timerError, flightChunks>>
    /\ effect' = "none"
    /\ UNCHANGED <<gateAtWindow, lastWindow>>
    /\ decodeDropped' = TRUE
    /\ UNCHANGED <<rvars, pvars>>

(***************************************************************************)
(* Transcription worker, spec.md section 6: load -> ready;                 *)
(* generate -> start, update, complete (or a failure, section 7)           *)
(***************************************************************************)
Msg(st, out) == [status |-> st, output |-> out]
Transcript(req) == [audio |-> req.audio, language |-> req.language]

WorkerLoad ==
    /\ wq # <<>> /\ Head(wq).type = "load"
    /\ wq' = Tail(wq)
    /\ inbox' = Append(inbox, Msg("ready", NoOutput))
    /\ UNCHANGED <<status, recorderRef, recording, isProcessing, chunks, language,
                   languageRef, text, gum, recState, recEvents, timers, reads,
                   wstage, lastBroadcast, nextChunk, nRequests, nResets,
                   nLangChanges, genOutstanding, segChunks>>
    /\ UNCHANGED <<startClicked, recSeg, resetSeg, nPublished, nCompleteHandled,
                   webgpu, nLoadPosted, nReady,
                   startWhileRecording, unmounted, timerError, flightChunks, decodeDropped>>
    /\ effect' = "none"
    /\ UNCHANGED <<gateAtWindow, lastWindow>>
    /\ UNCHANGED <<rvars, pvars>>

WorkerStart ==
    /\ wq # <<>> /\ Head(wq).type = "generate" /\ wstage = "idle"
    /\ wstage' = "started"
    /\ inbox' = Append(inbox, Msg("start", NoOutput))
    /\ UNCHANGED <<status, recorderRef, recording, isProcessing, chunks, language,
                   languageRef, text, gum, recState, recEvents, timers, reads,
                   wq, lastBroadcast, nextChunk, nRequests, nResets, nLangChanges,
                   genOutstanding, segChunks>>
    /\ UNCHANGED <<startClicked, recSeg, resetSeg, nPublished, nCompleteHandled,
                   webgpu, nLoadPosted, nReady,
                   startWhileRecording, unmounted, timerError, flightChunks, decodeDropped>>
    /\ effect' = "none"
    /\ UNCHANGED <<gateAtWindow, lastWindow>>
    /\ UNCHANGED <<rvars, pvars>>

WorkerComplete ==
    /\ wstage = "started"
    /\ wstage' = "idle"
    /\ wq' = Tail(wq)
    /\ inbox' = Append(inbox, Msg("complete", Transcript(Head(wq))))
    /\ UNCHANGED <<status, recorderRef, recording, isProcessing, chunks, language,
                   languageRef, text, gum, recState, recEvents, timers, reads,
                   lastBroadcast, nextChunk, nRequests, nResets, nLangChanges,
                   genOutstanding, segChunks>>
    /\ UNCHANGED <<startClicked, recSeg, resetSeg, nPublished, nCompleteHandled,
                   webgpu, nLoadPosted, nReady,
                   startWhileRecording, unmounted, timerError, flightChunks, decodeDropped>>
    /\ effect' = "none"
    /\ UNCHANGED <<gateAtWindow, lastWindow>>
    /\ UNCHANGED <<rvars, pvars>>

WorkerFail ==
    /\ wstage = "started"
    /\ wstage' = "idle"
    /\ wq' = Tail(wq)
    /\ inbox' = Append(inbox, Msg("error", NoOutput))
    /\ UNCHANGED <<status, recorderRef, recording, isProcessing, chunks, language,
                   languageRef, text, gum, recState, recEvents, timers, reads,
                   lastBroadcast, nextChunk, nRequests, nResets, nLangChanges,
                   genOutstanding, segChunks>>
    /\ UNCHANGED <<startClicked, recSeg, resetSeg, nPublished, nCompleteHandled,
                   webgpu, nLoadPosted, nReady,
                   startWhileRecording, unmounted, timerError, flightChunks, decodeDropped>>
    /\ effect' = "none"
    /\ UNCHANGED <<gateAtWindow, lastWindow>>
    /\ UNCHANGED <<rvars, pvars>>

(***************************************************************************)
(* Broadcaster: onMessageReceived, broadcaster.jsx:57-123                  *)
(***************************************************************************)
\* broadcaster.jsx:126-131  the listener is attached from mount to cleanup
HeadIs(st) == ~unmounted /\ inbox # <<>> /\ Head(inbox).status = st

\* broadcaster.jsx:88-92  'ready'
OnReady ==
    /\ HeadIs("ready")
    /\ inbox' = Tail(inbox)
    /\ status' = "ready"
    /\ recState' = IF recorderRef THEN "recording" ELSE recState
    /\ recSeg' = IF recorderRef THEN StartedSeg(recSeg, recState) ELSE recSeg
    /\ UNCHANGED <<recorderRef, recording, isProcessing, chunks, language,
                   languageRef, text, gum, timers, wq, wstage, lastBroadcast,
                   nResets, nLangChanges, genOutstanding, segChunks>>
    /\ nReady' = nReady + 1
    /\ startWhileRecording' =
           (startWhileRecording \/ (recorderRef /\ recState = "recording"))
    /\ UNCHANGED <<startClicked, resetSeg, nPublished, nCompleteHandled, webgpu,
                   nLoadPosted,
                   unmounted, timerError, flightChunks, decodeDropped>>
    /\ ProcessingEffect(status # "ready",
                        IF recorderRef THEN StartEvents(recEvents, recState)
                        ELSE recEvents,
                        nextChunk)
    /\ UNCHANGED <<rvars, pvars>>

\* a 'start' handler that leaves the gate open
GateOnStartOpen == FALSE

\* broadcaster.jsx:97  setIsProcessing(true)
GateOnStart == TRUE

\* broadcaster.jsx:94-102  'start'
OnStart ==
    /\ HeadIs("start")
    /\ inbox' = Tail(inbox)
    /\ isProcessing' = GateOnStart
    /\ UNCHANGED <<status, recorderRef, recording, chunks, language, languageRef,
                   text, gum, recState, timers, wq, wstage, lastBroadcast,
                   nResets, nLangChanges, genOutstanding, segChunks>>
    /\ UNCHANGED <<startClicked, recSeg, resetSeg, nPublished, nCompleteHandled,
                   webgpu, nLoadPosted, nReady,
                   startWhileRecording, unmounted, timerError, flightChunks, decodeDropped>>
    /\ \E d \in DataChoices(nextChunk, recState) :
          /\ recorderRef \/ d = 0
          /\ ProcessingEffect(isProcessing' # isProcessing,
                 IF recorderRef
                 THEN RequestData(recEvents, recState, nextChunk, d, CaptureTag)
                 ELSE recEvents,
                 IF recorderRef THEN NextId(nextChunk, d) ELSE nextChunk)
    /\ UNCHANGED <<rvars, pvars>>

\* a handler that publishes every result twice
PublicationsTwice(n) == n + 2

\* broadcaster.jsx:116-120  one broadcast() call in the 'complete' case
Publications(n) == n + 1

\* broadcaster.jsx:112-121  'complete'
OnComplete ==
    /\ HeadIs("complete")
    /\ inbox' = Tail(inbox)
    /\ isProcessing' = FALSE
    /\ text' = Head(inbox).output
    /\ lastBroadcast' = [message |-> Head(inbox).output, language |-> languageRef]
    /\ genOutstanding' = genOutstanding - 1
    /\ UNCHANGED <<status, recorderRef, recording, chunks, language, languageRef,
                   gum, recState, timers, wq, wstage, nResets, nLangChanges,
                   segChunks>>
    /\ nPublished' = Publications(nPublished)
    /\ nCompleteHandled' = nCompleteHandled + 1
    /\ UNCHANGED <<startClicked, recSeg, resetSeg, flightChunks, decodeDropped,
                   webgpu, nLoadPosted, nReady,
                   startWhileRecording, unmounted, timerError>>
    /\ ProcessingEffect(isProcessing, recEvents, nextChunk)
    /\ UNCHANGED <<rvars, pvars>>

\* broadcaster.jsx:58-122  the switch has no case for a failure report
OnError ==
    /\ HeadIs("error")
    /\ inbox' = Tail(inbox)
    /\ genOutstanding' = genOutstanding - 1
    /\ UNCHANGED <<status, recorderRef, recording, isProcessing, chunks, language,
                   languageRef, text, gum, recState, recEvents, timers, reads,
                   wq, wstage, lastBroadcast, nextChunk, nRequests, nResets,
                   nLangChanges, segChunks>>
    /\ UNCHANGED <<startClicked, recSeg, resetSeg, nPublished, nCompleteHandled,
                   webgpu, nLoadPosted, nReady,
                   startWhileRecording, unmounted, timerError, flightChunks, decodeDropped>>
    /\ effect' = "none"
    /\ UNCHANGED <<gateAtWindow, lastWindow>>
    /\ UNCHANGED <<rvars, pvars>>

BroadcasterNext ==
    \/ StartClick \/ GetUserMediaGranted \/ GetUserMediaDenied
    \/ Reset \/ SetLanguage
    \/ RecorderOnStart \/ RecorderOnDataAvailable \/ RecorderOnStop \/ TimerFire
    \/ ReadDone \/ DecodeFail
    \/ WorkerLoad \/ WorkerStart \/ WorkerComplete \/ WorkerFail
    \/ OnReady \/ OnStart \/ OnComplete \/ OnError

Spec == Init /\ [][BroadcasterNext]_vars

\* the broadcaster variant of src/unnamed/part_000: the same page, started by
\* its mount
VariantSpec == VariantInit /\ [][BroadcasterNext]_vars

\* the steps the browser schedules by itself: callbacks, timers, the worker and
\* the message handlers; the user's clicks and the permission prompt are not
PageNext ==
    \/ RecorderOnStart \/ RecorderOnDataAvailable \/ RecorderOnStop \/ TimerFire
    \/ ReadDone \/ DecodeFail
    \/ WorkerLoad \/ WorkerStart \/ WorkerComplete \/ WorkerFail
    \/ OnReady \/ OnStart \/ OnComplete \/ OnError

\* every queued task of the page is eventually run
FairSpec == Spec /\ WF_vars(PageNext)

(***************************************************************************)
(* Broadcaster: the component is unmounted                                 *)
(***************************************************************************)
\* broadcaster.jsx:129-131, 172-175  the cleanup functions: the listener is
\* removed, the recorder is stopped and recorderRef.current set to null; no
\* pending timer is cleared
Unmount ==
    /\ ~unmounted
    /\ unmounted' = TRUE
    /\ recorderRef' = FALSE
    /\ \E d \in DataChoices(nextChunk, recState) :
          IF recorderRef
          THEN /\ recEvents' =
                      StopEvents(recEvents, recState, nextChunk, d, CaptureTag)
               /\ nextChunk' = NextId(nextChunk, d)
               /\ recState' = "inactive"
          ELSE /\ d = 0
               /\ UNCHANGED <<recEvents, nextChunk, recState>>
    /\ UNCHANGED <<status, recording, isProcessing, chunks, language, languageRef,
                   text, gum, timers, reads, wq, wstage, inbox, lastBroadcast,
                   nRequests, nResets, nLangChanges, genOutstanding, segChunks>>
    /\ UNCHANGED <<startClicked, recSeg, resetSeg, nPublished, nCompleteHandled,
                   webgpu, nLoadPosted, nReady,
                   startWhileRecording, timerError, flightChunks, decodeDropped>>
    /\ effect' = "none"
    /\ UNCHANGED <<gateAtWindow, lastWindow>>
    /\ UNCHANGED <<rvars, pvars>>

\* broadcaster.jsx:148-165  a recorder callback that runs after the cleanup: its
\* state updates are dropped, but an empty chunk still arms the retry timer
DetachedRecorderEvent ==
    /\ unmounted
    /\ recEvents # <<>>
    /\ recEvents' = Tail(recEvents)
    /\ timers' = IF Head(recEvents).type = "data" /\ Head(recEvents).chunk.size = 0
                 THEN EmptyChunkRetry(timers) ELSE timers
    /\ UNCHANGED <<status, recorderRef, recording, isProcessing, chunks, language,
                   languageRef, text, gum, recState, reads, wq, wstage, inbox,
                   lastBroadcast, nextChunk, nRequests, nResets, nLangChanges,
                   genOutstanding, segChunks>>
    /\ UNCHANGED <<startClicked, recSeg, resetSeg, nPublished, nCompleteHandled,
                   webgpu, nLoadPosted, nReady,
                   startWhileRecording, unmounted, timerError, flightChunks, decodeDropped>>
    /\ effect' = "none"
    /\ UNCHANGED <<gateAtWindow, lastWindow>>
    /\ UNCHANGED <<rvars, pvars>>

LifecycleNext == BroadcasterNext \/ Unmount \/ DetachedRecorderEvent

\* the broadcaster with its unmount
LifecycleSpec == Init /\ [][LifecycleNext]_vars

(***************************************************************************)
(* Receiver: translate(), receiver.jsx:94-107                              *)
(***************************************************************************)
TranslateRequest == [text |-> inputRef', src_lang |-> sourceLanguageRef',
                     tgt_lang |-> targetLanguageRef']

\* translate() that takes the gate before the language test
TranslateGateFirst ==
    IF disabled
    THEN UNCHANGED <<disabled, output, tq, tPosted>>
    ELSE IF sourceLanguageRef' = targetLanguageRef'
    THEN /\ disabled' = TRUE
         /\ output' = PlainText(inputRef')
         /\ UNCHANGED <<tq, tPosted>>
    ELSE /\ disabled' = TRUE
         /\ tq' = Append(tq, TranslateRequest)
         /\ tPosted' = tPosted + 1
         /\ UNCHANGED output

\* translate() without the gate test
TranslateNoGate ==
    IF sourceLanguageRef' = targetLanguageRef'
    THEN /\ output' = PlainText(inputRef')
         /\ UNCHANGED <<disabled, tq, tPosted>>
    ELSE /\ disabled' = TRUE
         /\ tq' = Append(tq, TranslateRequest)
         /\ tPosted' = tPosted + 1
         /\ UNCHANGED output

\* translate() that posts every request twice
TranslateTwice ==
    IF disabled
    THEN UNCHANGED <<disabled, output, tq, tPosted>>
    ELSE IF sourceLanguageRef' = targetLanguageRef'
    THEN /\ output' = PlainText(inputRef')
         /\ UNCHANGED <<disabled, tq, tPosted>>
    ELSE /\ disabled' = TRUE
         /\ tq' = tq \o <<TranslateRequest, TranslateRequest>>
         /\ tPosted' = tPosted + 2
         /\ UNCHANGED output

\* translate() behind a gate shared with the transcription side
TranslateSharedGate ==
    IF disabled \/ isProcessing
    THEN UNCHANGED <<disabled, output, tq, tPosted>>
    ELSE IF sourceLanguageRef' = targetLanguageRef'
    THEN /\ output' = PlainText(inputRef')
         /\ UNCHANGED <<disabled, tq, tPosted>>
    ELSE /\ disabled' = TRUE
         /\ tq' = Append(tq, TranslateRequest)
         /\ tPosted' = tPosted + 1
         /\ UNCHANGED output

\* receiver.jsx:94-107; reads the refs as the calling handler left them
Translate ==
    IF disabled
    THEN UNCHANGED <<disabled, output, tq, tPosted>>
    ELSE IF sourceLanguageRef' = targetLanguageRef'
    THEN /\ output' = PlainText(inputRef')
         /\ UNCHANGED <<disabled, tq, tPosted>>
    ELSE /\ disabled' = TRUE
         /\ tq' = Append(tq, TranslateRequest)
         /\ tPosted' = tPosted + 1
         /\ UNCHANGED output

\* receiver.jsx:110-111  the mount effect calls translate()
ReceiverMount ==
    /\ ~mounted
    /\ mounted' = TRUE
    /\ UNCHANGED <<input, inputRef, sourceLanguage, sourceLanguageRef,
                   targetLanguage, targetLanguageRef, tstage, rInbox,
                   nTranscripts, payload, nTargetChanges, tCompleted,
                   retargetPending>>
    /\ Translate
    /\ gateAtPost' = IF tPosted' # tPosted THEN isProcessing ELSE gateAtPost
    /\ UNCHANGED <<bvars, pvars>>

\* receiver.jsx:115-121  a 'transcript' broadcast arrives
OnTranscript ==
    /\ mounted
    /\ nTranscripts < MaxTranscripts
    /\ nTranscripts' = nTranscripts + 1
    /\ \E m \in Messages, l \in BLanguages :
          payload' = [message |-> m, language |-> l]
    /\ input' = payload'.message
    /\ inputRef' = payload'.message
    /\ sourceLanguage' = languageMapping[payload'.language]
    /\ sourceLanguageRef' = languageMapping[payload'.language]
    /\ retargetPending' = (disabled /\ retargetPending)
    /\ UNCHANGED <<mounted, targetLanguage, targetLanguageRef, tstage, rInbox,
                   nTargetChanges, tCompleted>>
    /\ Translate
    /\ gateAtPost' = IF tPosted' # tPosted THEN isProcessing ELSE gateAtPost
    /\ UNCHANGED <<bvars, pvars>>

\* receiver.jsx:175-179  the target-language selector changes
OnTargetChange ==
    /\ mounted
    /\ nTargetChanges < MaxTargetChanges
    /\ nTargetChanges' = nTargetChanges + 1
    /\ \E x \in RLanguages \ {targetLanguageRef} :
          /\ targetLanguage' = x
          /\ targetLanguageRef' = x
    /\ retargetPending' = disabled
    /\ UNCHANGED <<mounted, input, inputRef, sourceLanguage, sourceLanguageRef,
                   tstage, rInbox, nTranscripts, payload, tCompleted>>
    /\ Translate
    /\ gateAtPost' = IF tPosted' # tPosted THEN isProcessing ELSE gateAtPost
    /\ UNCHANGED <<bvars, pvars>>

(***************************************************************************)
(* Translation worker, spec.md section 6: translate -> update, complete    *)
(* (or a failure, section 7)                                               *)
(***************************************************************************)
RMsg(st, out) == [status |-> st, output |-> out]

TWorkerUpdate ==
    /\ tq # <<>> /\ tstage = "idle"
    /\ tstage' = "updated"
    /\ rInbox' = Append(rInbox, RMsg("update",
           PartialTranslation(Head(tq).text, Head(tq).src_lang, Head(tq).tgt_lang)))
    /\ UNCHANGED <<mounted, disabled, input, inputRef, sourceLanguage,
                   sourceLanguageRef, targetLanguage, targetLanguageRef, output,
                   tq, nTranscripts, payload, nTargetChanges, tPosted,
                   tCompleted, retargetPending>>
    /\ UNCHANGED gateAtPost
    /\ UNCHANGED <<bvars, pvars>>

TWorkerComplete ==
    /\ tq # <<>>
    /\ tstage' = "idle"
    /\ tq' = Tail(tq)
    /\ rInbox' = Append(rInbox, RMsg("complete",
           Translation(Head(tq).text, Head(tq).src_lang, Head(tq).tgt_lang)))
    /\ UNCHANGED <<mounted, disabled, input, inputRef, sourceLanguage,
                   sourceLanguageRef, targetLanguage, targetLanguageRef, output,
                   nTranscripts, payload, nTargetChanges, tPosted, tCompleted,
                   retargetPending>>
    /\ UNCHANGED gateAtPost
    /\ UNCHANGED <<bvars, pvars>>

TWorkerFail ==
    /\ tq # <<>>
    /\ tstage' = "idle"
    /\ tq' = Tail(tq)
    /\ rInbox' = Append(rInbox, RMsg("error", PlainText("")))
    /\ UNCHANGED <<mounted, disabled, input, inputRef, sourceLanguage,
                   sourceLanguageRef, targetLanguage, targetLanguageRef, output,
                   nTranscripts, payload, nTargetChanges, tPosted, tCompleted,
                   retargetPending>>
    /\ UNCHANGED gateAtPost
    /\ UNCHANGED <<bvars, pvars>>

(***************************************************************************)
(* Receiver: onMessageReceived, receiver.jsx:42-84                         *)
(***************************************************************************)
RHeadIs(st) == rInbox # <<>> /\ Head(rInbox).status = st

\* receiver.jsx:74-77  'update'
ROnUpdate ==
    /\ RHeadIs("update")
    /\ rInbox' = Tail(rInbox)
    /\ output' = Head(rInbox).output
    /\ UNCHANGED <<mounted, disabled, input, inputRef, sourceLanguage,
                   sourceLanguageRef, targetLanguage, targetLanguageRef, tq,
                   tstage, nTranscripts, payload, nTargetChanges, tPosted,
                   tCompleted, retargetPending>>
    /\ UNCHANGED gateAtPost
    /\ UNCHANGED <<bvars, pvars>>

\* a 'complete' handler that keeps the gate closed
DisabledAfterCompleteStuck == TRUE

\* receiver.jsx:81  disabled.current = false
DisabledAfterComplete == FALSE

\* receiver.jsx:79-82  'complete'
ROnComplete ==
    /\ RHeadIs("complete")
    /\ rInbox' = Tail(rInbox)
    /\ output' = Head(rInbox).output
    /\ disabled' = DisabledAfterComplete
    /\ tCompleted' = tCompleted + 1
    /\ UNCHANGED <<mounted, input, inputRef, sourceLanguage, sourceLanguageRef,
                   targetLanguage, targetLanguageRef, tq, tstage, nTranscripts,
                   payload, nTargetChanges, tPosted, retargetPending>>
    /\ UNCHANGED gateAtPost
    /\ UNCHANGED <<bvars, pvars>>

\* receiver.jsx:43-83  the switch has no case for a failure report
ROnError ==
    /\ RHeadIs("error")
    /\ rInbox' = Tail(rInbox)
    /\ UNCHANGED <<mounted, disabled, input, inputRef, sourceLanguage,
                   sourceLanguageRef, targetLanguage, targetLanguageRef, output,
                   tq, tstage, nTranscripts, payload, nTargetChanges, tPosted,
                   tCompleted, retargetPending>>
    /\ UNCHANGED gateAtPost
    /\ UNCHANGED <<bvars, pvars>>

ReceiverNext ==
    \/ ReceiverMount \/ OnTranscript \/ OnTargetChange
    \/ TWorkerUpdate \/ TWorkerComplete \/ TWorkerFail
    \/ ROnUpdate \/ ROnComplete \/ ROnError

ReceiverSpec == Init /\ [][ReceiverNext]_vars

(***************************************************************************)
(* Model loading progress: the 'initiate' / 'progress' / 'done' cases of   *)
(* the two onMessageReceived handlers.  The events come from the model     *)
(* loader inside the workers, one per file and loading step, in any order. *)
(***************************************************************************)
Files == {"f1", "f2"}
ProgressValues == {50, 100}
\* an item as 'initiate' delivers it: no progress field yet
NoProgress == -1
Item(f, p) == [file |-> f, progress |-> p]
ItemFiles(items) == {items[i].file : i \in DOMAIN items}

\* an 'initiate' handler that keeps one item per file
AddItemOnce(items, f) ==
    IF f \in ItemFiles(items) THEN items ELSE Append(items, Item(f, NoProgress))

\* broadcaster.jsx:66, receiver.jsx:47  [...prev, e.data]
AddItem(items, f) == Append(items, Item(f, NoProgress))

\* broadcaster.jsx:71-78, receiver.jsx:52-59  every item of that file is updated
UpdateItems(items, f, p) ==
    [i \in DOMAIN items |->
        IF items[i].file = f THEN Item(f, p) ELSE items[i]]

\* broadcaster.jsx:83-85, receiver.jsx:64-66  every item of that file is removed
RemoveItems(items, f) == SelectSeq(items, LAMBDA it : it.file # f)

\* broadcaster.jsx:65-67  'initiate'
OnInitiate(f) ==
    /\ ~unmounted
    /\ nLoadEvents < MaxLoadEvents
    /\ nLoadEvents' = nLoadEvents + 1
    /\ progressItems' = AddItem(progressItems, f)
    /\ openFiles' = openFiles \cup {f}
    /\ UNCHANGED <<rProgressItems, ready, rOpenFiles>>
    /\ UNCHANGED <<bvars, rvars>>

\* broadcaster.jsx:69-79  'progress'
OnProgress(f, p) ==
    /\ ~unmounted
    /\ nLoadEvents < MaxLoadEvents
    /\ nLoadEvents' = nLoadEvents + 1
    /\ progressItems' = UpdateItems(progressItems, f, p)
    /\ UNCHANGED <<rProgressItems, ready, openFiles, rOpenFiles>>
    /\ UNCHANGED <<bvars, rvars>>

\* broadcaster.jsx:81-86  'done'
OnDone(f) ==
    /\ ~unmounted
    /\ nLoadEvents < MaxLoadEvents
    /\ nLoadEvents' = nLoadEvents + 1
    /\ progressItems' = RemoveItems(progressItems, f)
    /\ openFiles' = openFiles \ {f}
    /\ UNCHANGED <<rProgressItems, ready, rOpenFiles>>
    /\ UNCHANGED <<bvars, rvars>>

\* receiver.jsx:44-48  'initiate'
ROnInitiate(f) ==
    /\ nLoadEvents < MaxLoadEvents
    /\ nLoadEvents' = nLoadEvents + 1
    /\ ready' = "false"
    /\ rProgressItems' = AddItem(rProgressItems, f)
    /\ rOpenFiles' = rOpenFiles \cup {f}
    /\ UNCHANGED <<progressItems, openFiles>>
    /\ UNCHANGED <<bvars, rvars>>

\* receiver.jsx:50-60  'progress'
ROnProgress(f, p) ==
    /\ nLoadEvents < MaxLoadEvents
    /\ nLoadEvents' = nLoadEvents + 1
    /\ rProgressItems' = UpdateItems(rProgressItems, f, p)
    /\ UNCHANGED <<progressItems, ready, openFiles, rOpenFiles>>
    /\ UNCHANGED <<bvars, rvars>>

\* receiver.jsx:62-67  'done'
ROnDone(f) ==
    /\ nLoadEvents < MaxLoadEvents
    /\ nLoadEvents' = nLoadEvents + 1
    /\ rProgressItems' = RemoveItems(rProgressItems, f)
    /\ rOpenFiles' = rOpenFiles \ {f}
    /\ UNCHANGED <<progressItems, ready, openFiles>>
    /\ UNCHANGED <<bvars, rvars>>

\* receiver.jsx:69-72  'ready'
ROnReady ==
    /\ nLoadEvents < MaxLoadEvents
    /\ nLoadEvents' = nLoadEvents + 1
    /\ ready' = "true"
    /\ UNCHANGED <<progressItems, rProgressItems, openFiles, rOpenFiles>>
    /\ UNCHANGED <<bvars, rvars>>

ProgressNext ==
    \/ \E f \in Files : OnInitiate(f) \/ OnDone(f) \/ ROnInitiate(f) \/ ROnDone(f)
    \/ \E f \in Files, p \in ProgressValues : OnProgress(f, p) \/ ROnProgress(f, p)
    \/ ROnReady

\* the file events of a model load, delivered to both pages
ProgressSpec == Init /\ [][ProgressNext]_vars

(***************************************************************************)
(* A broadcaster and a receiver side by side.  The run starts where Spec   *)
(* is after its first transcription round (StartClick, GetUserMediaGranted,*)
(* WorkerLoad, OnReady, RecorderOnStart, RecorderOnDataAvailable, ReadDone,*)
(* WorkerStart, WorkerComplete, OnStart, RecorderOnDataAvailable,          *)
(* OnComplete): the first transcript is published, the second window is    *)
(* being read, the receiver page is constructed and not yet mounted.       *)
(***************************************************************************)
FirstSegment == [seg |-> 1, lang |-> "en"]
FirstChunks == <<NewChunk(1, 1, FirstSegment), NewChunk(2, 1, FirstSegment)>>
FirstTranscript == [audio |-> Decode(<<FirstChunks[1]>>), language |-> "en"]

PairInit ==
    /\ status = "ready" /\ recorderRef = TRUE
    /\ recording = TRUE /\ isProcessing = FALSE /\ chunks = FirstChunks
    /\ language = "en" /\ languageRef = "en"
    /\ text = FirstTranscript
    /\ gum = "granted" /\ recState = "recording" /\ recEvents = <<>>
    /\ timers = 0
    /\ reads = <<[chunks |-> FirstChunks, language |-> "en"]>>
    /\ wq = <<>> /\ wstage = "idle" /\ inbox = <<>>
    /\ lastBroadcast = [message |-> FirstTranscript, language |-> "en"]
    /\ nextChunk = 3 /\ nRequests = 2 /\ nResets = 0 /\ nLangChanges = 0
    /\ genOutstanding = 0 /\ segChunks = FirstChunks
    /\ startClicked = TRUE /\ recSeg = 1 /\ resetSeg = 0 /\ effect = "window"
    /\ nPublished = 1 /\ nCompleteHandled = 1
    /\ webgpu = TRUE /\ unmounted = FALSE /\ timerError = FALSE
    /\ nLoadPosted = 1 /\ nReady = 1 /\ startWhileRecording = FALSE
    /\ lastWindow = FirstChunks
    /\ flightChunks = {2} /\ decodeDropped = FALSE /\ gateAtWindow = FALSE
    /\ mounted = FALSE /\ disabled = FALSE
    /\ input = "Hallo." /\ inputRef = "Hallo."
    /\ sourceLanguage = "deu_Latn" /\ sourceLanguageRef = "deu_Latn"
    /\ targetLanguage = "eng_Latn" /\ targetLanguageRef = "eng_Latn"
    /\ output = PlainText("")
    /\ tq = <<>> /\ tstage = "idle" /\ rInbox = <<>>
    /\ nTranscripts = 0 /\ nTargetChanges = 0 /\ payload = NoPayload
    /\ tPosted = 0 /\ tCompleted = 0 /\ retargetPending = FALSE
    /\ gateAtPost = FALSE
    /\ progressItems = <<>> /\ rProgressItems = <<>> /\ ready = "null"
    /\ openFiles = {} /\ rOpenFiles = {} /\ nLoadEvents = 0

\* the transcription side: the user's Reset and language change, the recorder
\* callbacks, the retry timer, the window read, the worker and its messages
PairBroadcasterNext ==
    \/ Reset \/ SetLanguage
    \/ RecorderOnStart \/ RecorderOnDataAvailable \/ RecorderOnStop \/ TimerFire
    \/ ReadDone
    \/ WorkerStart \/ WorkerComplete
    \/ OnStart \/ OnComplete

\* the translation side: mount, incoming transcripts, the worker and its result
PairReceiverNext ==
    \/ ReceiverMount \/ OnTranscript
    \/ TWorkerComplete
    \/ ROnComplete

PairNext == PairBroadcasterNext \/ PairReceiverNext

PairSpec == PairInit /\ [][PairNext]_vars

(***************************************************************************)
(* Properties                                                              *)
(***************************************************************************)
\* the processing effect built a window in this step
DrainStep == Len(reads') > Len(reads)
LastRead == reads'[Len(reads')]
GenerateRequests == {wq[i] : i \in {j \in DOMAIN wq : wq[j].type = "generate"}}
\* translate() calls made so far; a step that changes it called translate()
TranslateCalls == nTranscripts + nTargetChanges + (IF mounted THEN 1 ELSE 0)
TranslateCalled == TranslateCalls' # TranslateCalls
TranslateOutstanding == tPosted - tCompleted

\* C1: at most one 'generate' request is posted and not yet answered, in every
\* reachable state of the broadcaster.
C1_SingleFlight == genOutstanding <= 1

\* C2: a translate() call with different source and target language posts
\* nothing exactly when an earlier posted request has had no 'complete' yet; the
\* gate flag says so in every state, and at most one request is outstanding.
C2_TranslationGate ==
    /\ [](TranslateOutstanding \in {0, 1})
    /\ [](disabled <=> TranslateOutstanding = 1)
    /\ [][(TranslateCalled /\ sourceLanguageRef' # targetLanguageRef')
            => ((tPosted' = tPosted) <=> (TranslateOutstanding >= 1))]_vars

\* C2 witness: a transcript's translate() call was denied behind the mount's request
C2_Witness ==
    /\ nTranscripts >= 1 /\ nTargetChanges = 0
    /\ sourceLanguageRef # targetLanguageRef
    /\ tPosted = 1 /\ tCompleted = 0 /\ disabled

C4_WindowIsTail ==
    \A r \in GenerateRequests :
        Len(r.decoded) > MAX_SAMPLES =>
            /\ Len(r.audio) = MAX_SAMPLES
            /\ \A i \in 1..MAX_SAMPLES :
                   r.audio[i] = r.decoded[Len(r.decoded) - MAX_SAMPLES + i]

\* C4 witness: a posted request whose decoded signal was longer than the window
C4_Witness == \E r \in GenerateRequests : Len(r.decoded) > MAX_SAMPLES

\* C5: every window has min(decoded length, MAX_SAMPLES) samples, and a signal of
\* at most MAX_SAMPLES samples is sent unmodified.
C5_WindowBounded ==
    \A r \in GenerateRequests :
        /\ Len(r.audio) = Min(Len(r.decoded), MAX_SAMPLES)
        /\ Len(r.audio) <= MAX_SAMPLES
        /\ (Len(r.decoded) <= MAX_SAMPLES => r.audio = r.decoded)

\* C5 witness: a posted request whose decoded signal had exactly MAX_SAMPLES samples
C5_Witness == \E r \in GenerateRequests : Len(r.decoded) = MAX_SAMPLES

\* C6: a translate() call with equal source and target language posts nothing
\* and leaves the gate flag as it was.
C6_ShortCircuitNoGate ==
    [][(TranslateCalled /\ sourceLanguageRef' = targetLanguageRef')
         => (tq' = tq /\ tPosted' = tPosted /\ disabled' = disabled)]_vars

\* C6 witness: the short-circuit ran with the gate free and showed the input
C6_Witness ==
    /\ sourceLanguageRef = targetLanguageRef
    /\ ~disabled /\ tPosted >= 1
    /\ output = PlainText(inputRef)

\* C7: a translate() call with equal source and target language makes the output
\* the current input text, also while an earlier request is in flight.
C7_SameLanguageShowsInput ==
    [][(TranslateCalled /\ sourceLanguageRef' = targetLanguageRef')
         => output' = PlainText(inputRef')]_vars

\* C8: a target change made while a request is in flight is served once that
\* request completes: the receiver is never idle (gate free, nothing queued,
\* nothing to handle) with such a change unserved and a translation still due.
ReceiverIdle == ~disabled /\ tq = <<>> /\ rInbox = <<>>
C8_RetargetServed ==
    ~(retargetPending /\ ReceiverIdle /\ sourceLanguageRef # targetLanguageRef)

\* C9: handling a failure report releases the gate of the failed request.
C9_FailureReleasesGate ==
    [][(RHeadIs("error") /\ rInbox' = Tail(rInbox)) => ~disabled']_vars

\* C10: an empty chunk leaves the buffer unchanged, schedules exactly one retry
\* timer, asks the recorder for nothing at once and builds no window; no window
\* and no request is ever built from an empty buffer.
EmptyChunkStep ==
    /\ recEvents # <<>> /\ Head(recEvents).type = "data"
    /\ Head(recEvents).chunk.size = 0
    /\ RecorderOnDataAvailable
C10_EmptyChunkRetry ==
    /\ [][EmptyChunkStep => /\ chunks' = chunks
                            /\ timers' = timers + 1
                            /\ recEvents' = Tail(recEvents)
                            /\ reads' = reads]_vars
    /\ [](\A i \in DOMAIN reads : reads[i].chunks # <<>>)
    /\ [](\A r \in GenerateRequests : r.chunks # <<>>)

\* C10 witness: an empty chunk was handled and its retry timer is pending
C10_Witness == timers > 0 /\ status = "ready" /\ recording

\* C11: until the user clicks the start button, no 'load' request has been
\* posted to the transcription worker (none is queued, none was answered) and
\* the status is null.
C11_LoadOnlyOnStart ==
    ~startClicked => (status = "null" /\ wq = <<>> /\ inbox = <<>>)

\* C12: once the worker's 'ready' has been handled and the microphone permission
\* has been granted, in either order, the capture device is started and the
\* recorder eventually reaches Recording (recording = true).
C12_ReadyStartsRecording ==
    (status = "ready" /\ gum = "granted") ~> (recState = "recording" /\ recording)

\* C13: once microphone permission has been denied, the status never becomes
\* 'loading' or 'ready', the capture device is never started, no transcription
\* window is built or posted, and permission is not asked for again.
C13_DeniedIsTerminal ==
    /\ [][gum = "denied" =>
            /\ (status' # status => status' \notin {"loading", "ready"})
            /\ recState' = recState /\ recSeg' = recSeg
            /\ reads' = reads /\ genOutstanding' = genOutstanding
            /\ gum' = "denied"]_vars
    /\ [](gum = "denied" => (~recorderRef /\ recState = "inactive"))

\* C14: a decode failure posts no 'generate' request and leaves the recorder
\* recording, and the pipeline does not stall on it: the page never stays for
\* ever with a dropped window behind it and no later window decoded and posted,
\* while it is ready, recording, its gate free, and the run's recorder and
\* request bounds not used up.
DecodeFailStep == Len(reads') < Len(reads) /\ decodeDropped'
CanContinue == nRequests < MaxRequests /\ nextChunk <= MaxChunks
DroppedAndIdle ==
    /\ decodeDropped /\ CanContinue
    /\ status = "ready" /\ recording /\ recState = "recording" /\ ~isProcessing
C14_DecodeFailureRecovers ==
    /\ [][DecodeFailStep => /\ wq' = wq /\ genOutstanding' = genOutstanding
                            /\ recState' = recState /\ recording' = recording]_vars
    /\ []<>(~DroppedAndIdle)

\* C15: a Reset click leaves status, language, text and the processing flag as
\* they were and, when the recorder exists, stops it and starts it again at once
\* (stop event, then start event, a new segment). Once no stop or start event
\* of the recorder is pending any more, recording is true and every chunk in
\* the buffer was captured in the restarted segment or later.
ResetStep == nResets' = nResets + 1
StopStartDelivered ==
    \A i \in DOMAIN recEvents : recEvents[i].type \notin {"stop", "start"}
C15_ResetRestartsCapture ==
    /\ [][ResetStep =>
            /\ status' = status /\ language' = language
            /\ text' = text /\ isProcessing' = isProcessing
            /\ recorderRef =>
                  /\ recState' = "recording" /\ recSeg' = recSeg + 1
                  /\ recEvents'[Len(recEvents')] = StartEv
                  /\ recState = "recording" =>
                         recEvents'[Len(recEvents') - 1] = StopEv]_vars
    /\ []((resetSeg > 0 /\ StopStartDelivered) =>
            /\ recording
            /\ \A i \in DOMAIN chunks : chunks[i].seg >= resetSeg)

\* C15 witness: after a Reset made while recording, its callbacks are delivered
\* and the buffer holds a chunk of the new segment, an older chunk being gone
C15_Witness ==
    /\ resetSeg = 2 /\ StopStartDelivered /\ recording
    /\ chunks # <<>> /\ chunks[1].seg = 2 /\ chunks[1].id > 1

\* C16: no window mixes languages: every window the processing effect builds
\* and every 'generate' request posted with language L holds only chunks that
\* were captured while L was the selected language.
OneLanguage(cs, l) == \A i \in DOMAIN cs : cs[i].lang = l
C16_NoMixedLanguageWindow ==
    /\ \A i \in DOMAIN reads : OneLanguage(reads[i].chunks, reads[i].language)
    /\ \A r \in GenerateRequests : OneLanguage(r.chunks, r.language)

\* C17: the chunk buffer is emptied by the recorder's onstart callback, every
\* other step that changes it appends to it, and all chunks in it were captured
\* in one and the same recording segment, the one whose onstart was delivered
\* last.
OnStartStep ==
    /\ recEvents # <<>> /\ Head(recEvents).type = "start"
    /\ recording' /\ flightChunks' = {} /\ segChunks' = <<>>
PendingStarts ==
    Cardinality({i \in DOMAIN recEvents : recEvents[i].type = "start"})
CurrentSegment == recSeg - PendingStarts
IsProperPrefix(s, t) == Len(s) < Len(t) /\ SubSeq(t, 1, Len(s)) = s
C17_BufferIsOneSegment ==
    /\ [][OnStartStep => chunks' = <<>>]_vars
    /\ [][(chunks' # chunks /\ ~OnStartStep) => IsProperPrefix(chunks, chunks')]_vars
    /\ [](\A i, j \in DOMAIN chunks : chunks[i].seg = chunks[j].seg)
    /\ [](\A i \in DOMAIN chunks : chunks[i].seg = CurrentSegment)

\* C17 witness: the buffer of a second segment, holding two of its chunks, after
\* a chunk of the first segment was captured
C17_Witness ==
    /\ Len(chunks) >= 2 /\ chunks[1].seg = 2 /\ chunks[1].id > 1

\* C18: the recorder is recording whenever a request is in flight, and every
\* non-empty chunk of the current segment that was delivered while a request was
\* in flight is in the chunk buffer ever after, in particular when a 'complete'
\* message is handled, and is part of every window built from then on, until
\* the segment is restarted.
ChunkIds(cs) == {cs[i].id : i \in DOMAIN cs}
CompleteStep == HeadIs("complete") /\ inbox' = Tail(inbox)
C18_FlightChunksKept ==
    /\ [](genOutstanding > 0 => recState = "recording")
    /\ [](flightChunks \subseteq ChunkIds(chunks))
    /\ [][CompleteStep => flightChunks' \subseteq ChunkIds(chunks')]_vars
    /\ [][DrainStep => flightChunks' \subseteq ChunkIds(LastRead.chunks)]_vars

\* C18 witness: the only request has completed and the window just built holds a
\* chunk that was delivered while it was in flight
C18_Witness ==
    /\ effect = "window" /\ nPublished = 1 /\ genOutstanding = 0 /\ ~isProcessing
    /\ flightChunks # {}
    /\ flightChunks \subseteq ChunkIds(reads[Len(reads)].chunks)

\* C19: the processing effect builds a window only when, as it runs, the status
\* is 'ready', recording is true, the processing flag is false and the chunk
\* buffer is not empty; when the status is not 'ready', recording is false or
\* the processing flag is true, it builds no window and does not call
\* requestData().
C19_EffectGuarded ==
    /\ effect = "window" =>
          (status = "ready" /\ recording /\ ~isProcessing /\ chunks # <<>>)
    /\ (status # "ready" \/ ~recording \/ isProcessing) =>
          effect \in {"skip", "none"}

\* C19 witness: the effect ran with the processing flag set and data in the
\* buffer, and returned early
C19_Witness ==
    /\ effect = "skip" /\ isProcessing
    /\ status = "ready" /\ recording /\ recorderRef /\ chunks # <<>>

\* C20: handling a 'complete' message makes exactly one broadcast, carrying the
\* result of that message, no other step broadcasts, and the number of
\* broadcasts equals the number of 'complete' messages handled in every state.
C20_OnePublishPerComplete ==
    /\ [](nPublished = nCompleteHandled)
    /\ [][CompleteStep => /\ nPublished' = nPublished + 1
                          /\ lastBroadcast'.message = Head(inbox).output]_vars
    /\ [][~CompleteStep => /\ nPublished' = nPublished
                           /\ lastBroadcast' = lastBroadcast]_vars

\* C20 witness: two transcriptions have completed and two broadcasts were made
C20_Witness ==
    /\ nCompleteHandled = 2 /\ nPublished = 2
    /\ lastBroadcast.message = text /\ Len(text.audio) > 0

\* C21: handling a 'transcript' broadcast sets the input text and the source
\* language, state and ref, to the payload's values, leaves the target language
\* alone and runs translate() once on them: with the gate held nothing is
\* posted and the output stays; with equal languages the payload's text is
\* shown; else exactly one request is posted, carrying the payload's text and
\* mapped language.
TranscriptStep == nTranscripts' = nTranscripts + 1
PayloadRequest ==
    [text |-> payload'.message, src_lang |-> languageMapping[payload'.language],
     tgt_lang |-> targetLanguageRef]
C21_TranscriptHandedOver ==
    [][TranscriptStep =>
        /\ input' = payload'.message /\ inputRef' = payload'.message
        /\ sourceLanguage' = languageMapping[payload'.language]
        /\ sourceLanguageRef' = languageMapping[payload'.language]
        /\ targetLanguage' = targetLanguage
        /\ targetLanguageRef' = targetLanguageRef
        /\ TranslateCalls' = TranslateCalls + 1
        /\ IF disabled
           THEN tq' = tq /\ output' = output /\ disabled'
           ELSE IF languageMapping[payload'.language] = targetLanguageRef
           THEN tq' = tq /\ output' = PlainText(payload'.message) /\ ~disabled'
           ELSE tq' = Append(tq, PayloadRequest) /\ disabled']_vars

\* C21 witness: the second transcript arrived while the request made for the
\* first was in flight; input and source language are the second's
C21_Witness ==
    /\ nTranscripts = 2 /\ disabled /\ Len(tq) = 1
    /\ tq[1].text # payload.message /\ inputRef = payload.message
    /\ sourceLanguageRef = languageMapping[payload.language]

\* C22: once the receiver is mounted and at rest (gate free, no request
\* queued, no worker message to handle), the displayed output is what the
\* current input text, source language and target language call for: the input
\* itself if the languages are equal, else its translation for that pair.
ExpectedOutput ==
    IF sourceLanguageRef = targetLanguageRef
    THEN PlainText(inputRef)
    ELSE Translation(inputRef, sourceLanguageRef, targetLanguageRef)
C22_OutputFollowsInput ==
    (mounted /\ ReceiverIdle) => output = ExpectedOutput

\* C23: the progress items of each page are a mapping keyed by file: at most
\* one item per file, and the files that have an item are exactly the files
\* initiated and not yet done; a 'progress' event for a file without an item
\* changes nothing and a 'done' event leaves no item of its file.
IsMapping(items) ==
    \A i, j \in DOMAIN items : items[i].file = items[j].file => i = j
C23_ItemsKeyedByFile ==
    /\ IsMapping(progressItems) /\ ItemFiles(progressItems) = openFiles
    /\ IsMapping(rProgressItems) /\ ItemFiles(rProgressItems) = rOpenFiles

\* C24: when WebGPU is unavailable the broadcaster never attempts inference: no
\* 'load' and no 'generate' request is posted to the transcription worker, so
\* the worker never has a request to serve, the status stays null and no
\* transcription window is built.
NoInferenceAttempt ==
    /\ wq = <<>> /\ wstage = "idle" /\ inbox = <<>>
    /\ status = "null" /\ nRequests = 0 /\ genOutstanding = 0
C24_UnsupportedNeverInfers == ~webgpu => NoInferenceAttempt

\* C26: the recording flag changes only in a step that runs the capture
\* device's onstart callback, which sets it, or its onstop callback, which
\* clears it; every other step (worker messages, chunk deliveries, the retry
\* timer, the user's clicks, the processing effect) leaves it as it is.
C26_RecordingOnlyByCallbacks ==
    [][/\ RecorderOnStart => recording'
       /\ RecorderOnStop => ~recording'
       /\ ~(RecorderOnStart \/ RecorderOnStop) => recording' = recording]_vars
\* onstop caused by a Reset was delivered and cleared the flag; the onstart of
\* the restart is still queued
C26_Witness ==
    /\ nResets = 1 /\ status = "ready" /\ ~recording
    /\ recState = "recording"
    /\ recEvents # <<>> /\ Head(recEvents).type = "start"
    /\ nRequests > 0

\* C27: the transcription gate is reusable: while a transcription is in
\* progress (a window was built and no 'complete' received for it yet) no
\* second request is issued; handling the 'complete' frees the gate, and the
\* processing effect that runs then, with recording on, status 'ready' and a
\* non-empty buffer, issues the next request.
\* as the effect of this step runs: an earlier window is still being read, or
\* a posted request has no 'complete' handled yet
TranscriptionInProgress == reads # <<>> \/ genOutstanding' > 0
C27_GateReusable ==
    [][/\ TranscriptionInProgress => ~DrainStep
       /\ CompleteStep => ~isProcessing'
       /\ (/\ CompleteStep /\ isProcessing /\ recorderRef /\ recording
           /\ status = "ready" /\ chunks # <<>>) => DrainStep]_vars

\* C28: the source language attached to a broadcast transcript is the language
\* of the 'generate' request that produced the transcript.
C28_BroadcastLanguageIsRequestLanguage ==
    lastBroadcast # NoBroadcast =>
        lastBroadcast.language = lastBroadcast.message.language

\* C29: no retry-timer callback runs after the cleanup has stopped the recorder
\* and set recorderRef.current to null: the timer never calls requestData() on
\* a missing recorder.
C29_NoTimerAfterCleanup == ~timerError

\* C30: the transcription loop does not stall: while the status is 'ready',
\* the recorder is recording, the gate is free and the run's recorder and
\* request bounds are not used up, something is always pending that leads to
\* the next 'generate' request: a recorder event, a retry timer, a window being
\* read, a request at the worker or a worker message to handle.
NothingPending ==
    /\ recEvents = <<>> /\ timers = 0 /\ reads = <<>>
    /\ wq = <<>> /\ wstage = "idle" /\ inbox = <<>>
LoopStalled ==
    /\ status = "ready" /\ recorderRef /\ recording /\ recState = "recording"
    /\ ~isProcessing /\ CanContinue
    /\ NothingPending
C30_LoopNeverStalls == ~LoopStalled

\* C25: the two gates are independent: a step of the transcription side leaves
\* the translation gate and the translation requests as they are, a step of
\* the translation side leaves the processing flag and the windows as they
\* are, a translate() call with the translation gate free and two different
\* languages posts its request whatever the processing flag is, and a run of
\* the processing effect with its guard true and a non-empty buffer builds its
\* window whatever the translation gate is.
TranscriptionStep == bvars' # bvars
TranslationStep == rvars' # rvars
C25_GatesIndependent ==
    /\ [][TranscriptionStep =>
            /\ disabled' = disabled /\ tq' = tq /\ tPosted' = tPosted]_vars
    /\ [][TranslationStep =>
            /\ isProcessing' = isProcessing /\ reads' = reads /\ wq' = wq
            /\ nRequests' = nRequests]_vars
    /\ [][(TranslateCalled /\ ~disabled
            /\ sourceLanguageRef' # targetLanguageRef') =>
               (tPosted' = tPosted + 1 /\ disabled')]_vars
    /\ [][(/\ TranscriptionStep /\ effect' \in {"skip", "window", "request"}
           /\ EffectGuard(recorderRef', recording', isProcessing', status')
           /\ chunks' # <<>>) => DrainStep]_vars
\* both gates are held; the last window was built while the translation gate
\* was held and the last translate request was posted while the processing
\* flag was set
C25_Witness ==
    /\ isProcessing /\ disabled
    /\ gateAtWindow /\ gateAtPost
    /\ nRequests = 3 /\ tPosted > 0

\* C31: at most one 'load' request is posted to the transcription worker in a
\* session, 'ready' is handled at most once, and start() is never called on a
\* recorder that is already recording.
C31_SingleLoad ==
    /\ nLoadPosted <= 1
    /\ nReady <= 1
    /\ ~startWhileRecording

\* C32: within one recording segment the windows are cumulative: every window
\* is the whole buffer, which holds every non-empty chunk delivered since the
\* segment's onstart; the window built before it from the same buffer is a
\* prefix of it; and the segment's first chunk is the first chunk of every
\* window.
IsPrefix(s, t) == Len(s) <= Len(t) /\ SubSeq(t, 1, Len(s)) = s
C32_WindowsCumulative ==
    /\ [][DrainStep =>
            /\ LastRead.chunks = chunks' /\ LastRead.chunks = segChunks'
            /\ IsPrefix(lastWindow, LastRead.chunks)
            /\ (segChunks # <<>> => LastRead.chunks[1] = segChunks[1])]_vars
    /\ [](lastWindow # <<>> =>
            (IsPrefix(lastWindow, chunks) /\ lastWindow[1] = segChunks[1]))
\* a request posted earlier and the window just built belong to one segment,
\* and the window extends the request's chunks by a chunk delivered since
C32_Witness ==
    /\ effect = "window" /\ recSeg = 2
    /\ \E r \in GenerateRequests :
          /\ IsProperPrefix(r.chunks, lastWindow)
          /\ r.chunks[1].seg = 2 /\ lastWindow[1].seg = 2

====
